---- MODULE Spec2Model ----
(***************************************************************************)
(* AnkiVoiceRecorder (src/myaddon/__init__.py): the VoiceRecorder          *)
(* start/stop/toggle/play_last state machine, the configuration resolver   *)
(* (_get_config, _get_save_dir, _get_gain, shortcuts), the settings        *)
(* dialogs, and the in-place amplifier _amplify_wav over PCM sample bytes. *)
(*                                                                         *)
(* Gains are floats in the code.  Here a gain is an integer numerator over *)
(* GainDen, so 1.25 is 50 and [0.1, 5.0] is [4, 200].  For every gain the  *)
(* model resolves (4, 20, 40, 50, 80, 200) and every 8/16-bit sample, the  *)
(* double product sample*gain has the same floor as the exact rational.    *)
(***************************************************************************)
EXTENDS Integers, Sequences, FiniteSets, TLC

VARIABLES
    col,          \* mw.col is not None (a collection is open)
    audio_input,  \* VoiceRecorder._audio_input is not None
    recording,    \* VoiceRecorder._recording
    last_path,    \* VoiceRecorder._last_path (None or a path)
    config,       \* the addon manager's stored configuration (None or a record)
    shortcuts,    \* shortcuts set on action_recording / action_playback
    now,          \* wall clock, in seconds (datetime.now())
    files,        \* the file system: path -> NoFile, Damaged or a PCM file
    hostState,    \* QMediaRecorder state: "Stopped" or "Recording"
    hostLoc,      \* the path the host recorder is capturing to
    pending,      \* paths for which record() was issued since the last stop()
    player,       \* QMediaPlayer: [source], playing once a source is set
    completed,    \* history: the path of the most recently completed capture
    last          \* what the last handler did (warning, raised, calls made)

vars == <<col, audio_input, recording, last_path, config, shortcuts, now,
          files, hostState, hostLoc, pending, player, completed, last>>

-----------------------------------------------------------------------------
\* Bounds of the model

\* the clock runs over 0..MaxTime
MaxTime == 1
\* a captured file holds 1..MaxFrames samples
MaxFrames == 2

-----------------------------------------------------------------------------
\* Values

\* _last_path is None
None == <<>>
\* getConfig() returns None: nothing is stored for the addon
NoConfig == [kind |-> "none"]
\* no file at the path
NoFile == [kind |-> "none"]
\* a file that exists but whose header/data is incomplete (unreadable as PCM)
Damaged == [kind |-> "damaged"]

\* the "gain" entry of a configuration: a number, no entry, or a value float()
\* rejects (TypeError/ValueError)
GainNum(n) == [kind |-> "num", val |-> n]
GainAbsent == [kind |-> "absent", val |-> 0]
GainBad == [kind |-> "bad", val |-> 0]

\* the unit of a gain: gain g stands for the float g / GainDen
GainDen == 40
\* "gain": 1 in the configuration synthesized by _get_config
SYNTH_GAIN == 40
\* 1.25, the fallback of _get_gain
DEFAULT_GAIN == 50
\* 0.1 and 5.0, the clamp of _get_gain
GAIN_MIN == 4
GAIN_MAX == 200

DEFAULT_RECORD_SHORTCUT == "Ctrl+R"
DEFAULT_PLAY_SHORTCUT == "Ctrl+Shift+R"

MEDIA_DIR == "media"
Dirs == {MEDIA_DIR, "custom"}
Paths == Dirs \X (0..MaxTime)

\* media_dir / f"voice_{timestamp}.wav": the path is the directory and the second
PathOf(dir, ts) == <<dir, ts>>

\* QKeySequence(text).isEmpty() is true of "" and false of a key chord
_is_valid_shortcut(text) == text # ""

\* QKeySequence(text).toString(): the canonical spelling of a chord
KeySequenceToString(text) ==
    CASE text = "f5" -> "F5"
      [] text = "ctrl+r" -> "Ctrl+R"
      [] OTHER -> text

-----------------------------------------------------------------------------
\* Configuration resolver

DefaultConfig ==
    [save_dir |-> "", gain |-> GainNum(SYNTH_GAIN),
     record_shortcut |-> DEFAULT_RECORD_SHORTCUT,
     play_shortcut |-> DEFAULT_PLAY_SHORTCUT]

\* _get_config: the stored configuration, or the defaults, which it then stores.
\* The value is both what is returned and what is stored afterwards.
_get_config(c) == IF c = NoConfig THEN DefaultConfig ELSE c

\* float(config.get("gain", 1.25)) with the TypeError/ValueError fallback, in
\* GainDen units, then the clamp.  the clamp follows.
_get_gain(c) ==
    LET cfg == _get_config(c)
        gain == IF cfg.gain.kind \in {"absent", "bad"} THEN DEFAULT_GAIN
                ELSE cfg.gain.val
    IN  IF gain < GAIN_MIN THEN GAIN_MIN
        ELSE IF gain > GAIN_MAX THEN GAIN_MAX
        ELSE gain

\* _get_save_dir: the configured directory, else mw.col.media.dir(), which
\* raises AttributeError when mw.col is None ("RAISE").
_get_save_dir(c, colOpen) ==
    LET cfg == _get_config(c)
    IN  IF cfg.save_dir # "" THEN cfg.save_dir
        ELSE IF colOpen THEN MEDIA_DIR
        ELSE "RAISE"

_get_record_shortcut(c) ==
    LET raw == _get_config(c).record_shortcut
    IN  IF raw # "" /\ _is_valid_shortcut(raw) THEN KeySequenceToString(raw)
        ELSE DEFAULT_RECORD_SHORTCUT

_get_play_shortcut(c) ==
    LET raw == _get_config(c).play_shortcut
    IN  IF raw # "" /\ _is_valid_shortcut(raw) THEN KeySequenceToString(raw)
        ELSE DEFAULT_PLAY_SHORTCUT

-----------------------------------------------------------------------------
\* Amplifier: audioop.mul over the frames' bytes

Pow2(n) == IF n = 8 THEN 256 ELSE IF n = 16 THEN 65536 ELSE IF n = 7 THEN 128 ELSE 32768

\* the signed range of a sample of `width` bytes
MinVal(width) == 0 - Pow2(8 * width - 1)
MaxVal(width) == Pow2(8 * width - 1) - 1

\* GETRAWSAMPLE: little-endian two's complement
GetSample(bytes, width, i) ==
    LET base == (i - 1) * width
        u == IF width = 1 THEN bytes[base + 1]
             ELSE bytes[base + 1] + 256 * bytes[base + 2]
    IN  IF u >= Pow2(8 * width - 1) THEN u - Pow2(8 * width) ELSE u

\* SETRAWSAMPLE: the low `width` bytes of the value, byte j of the sample
SampleByte(val, width, j) ==
    LET u == val % Pow2(8 * width)
    IN  IF j = 1 THEN u % 256 ELSE (u \div 256) % 256

\* fbound(val, minval, maxval) of audioop.c, val given as a numerator over
\* GainDen: clamp, then round towards minus infinity.
fbound_wrap(val, minval, maxval) == val \div GainDen

fbound(val, minval, maxval) ==
    IF val > maxval * GainDen THEN maxval
    ELSE IF val < (minval + 1) * GainDen THEN minval
    ELSE val \div GainDen

\* audioop.mul(frames, width, factor)
mul(bytes, width, factor) ==
    [b \in 1..Len(bytes) |->
        LET i == ((b - 1) \div width) + 1
            j == ((b - 1) % width) + 1
        IN  SampleByte(fbound(GetSample(bytes, width, i) * factor,
                              MinVal(width), MaxVal(width)), width, j)]

PcmParams(width) ==
    [nchannels |-> 1, sampwidth |-> width, framerate |-> 44100, comptype |-> "NONE"]

IsPcm(f) == f.kind = "pcm"

\* number of frames of a PCM file
NFrames(f) == Len(f.frames) \div (f.params.sampwidth * f.params.nchannels)

\* where _amplify_wav can fail: reading the file, audioop.mul, opening the
\* replacement, writing or closing it
FailPoints == {"none", "read", "mul", "openw", "write"}

\* why _amplify_wav fails on this file without any injected I/O failure
NaturalFail(f) ==
    IF f.kind = "damaged" THEN "read"
    ELSE IF Len(f.frames) % f.params.sampwidth # 0 THEN "mul"
    ELSE "none"

\* the failure that ends _amplify_wav(path, ...): "skip" when the path does not
\* exist, else the first of the file's own and the injected failure
AmpFail(fs, path, fail) ==
    IF fs[path].kind = "none" THEN "skip"
    ELSE IF NaturalFail(fs[path]) # "none" THEN NaturalFail(fs[path])
    ELSE fail

\* _amplify_wav(path, gain): the file system afterwards.  open(path, "wb")
\* truncates the file, so a failure after it leaves an unfinished file.
_amplify_wav(fs, path, gain, fail) ==
    LET f == fs[path]
        outcome == AmpFail(fs, path, fail)
    IN  IF outcome \in {"skip", "read", "mul", "openw"} THEN fs
        ELSE IF outcome = "write" THEN [fs EXCEPT ![path] = Damaged]
        ELSE [fs EXCEPT ![path] =
                [kind |-> "pcm", params |-> f.params,
                 frames |-> mul(f.frames, f.params.sampwidth, gain)]]

-----------------------------------------------------------------------------
\* Host multimedia objects

\* a take is <<sample width, samples>>: what the capture session delivers.
\* One 16-bit mono take for the state machine:
CapturedTakes == {<<2, <<10000>>>>}

\* the bytes of a sequence of samples
Encode(samples, width) ==
    [b \in 1..(Len(samples) * width) |->
        SampleByte(samples[((b - 1) \div width) + 1], width, ((b - 1) % width) + 1)]

PcmFile(width, samples) ==
    [kind |-> "pcm", params |-> PcmParams(width), frames |-> Encode(samples, width)]

\* the samples of a PCM file, read back
Samples(f) ==
    [i \in 1..(Len(f.frames) \div f.params.sampwidth) |->
        GetSample(f.frames, f.params.sampwidth, i)]

\* QMediaRecorder.record() after setOutputLocation(path): ignored unless the
\* recorder is stopped
HostRecord(path) ==
    /\ pending' = pending \cup {path}
    /\ IF hostState = "Stopped"
       THEN /\ hostState' = "Recording"
            /\ hostLoc' = path
       ELSE UNCHANGED <<hostState, hostLoc>>

\* the backend may or may not create the (unfinished) file as capture begins
FilesAfterRecord(path, created) ==
    IF hostState = "Stopped" /\ created THEN [files EXCEPT ![path] = Damaged]
    ELSE files

\* nothing is captured when the recorder is stopped while not recording
NoTake == <<0, <<>>>>

\* QMediaRecorder.stop(): finalizes the file being captured
FilesAfterHostStop(take) ==
    IF hostState = "Recording"
    THEN [files EXCEPT ![hostLoc] = PcmFile(take[1], take[2])]
    ELSE files

-----------------------------------------------------------------------------
\* What a handler reports: the method that ran, the warning shown, an
\* exception leaving it, record() called, how _amplify_wav ended ("n/a" when
\* it was not called) with the gain and the file it was given, player started

Outcome(op, warning, raised, record, amp, gain, input, played) ==
    [op |-> op, warning |-> warning, raised |-> raised,
     record |-> record, amp |-> amp, gain |-> gain, input |-> input,
     played |-> played]

Quiet(op) == Outcome(op, "", FALSE, FALSE, "n/a", 0, NoFile, FALSE)

Warned(op, warning) ==
    Outcome(op, warning, FALSE, FALSE, "n/a", 0, NoFile, FALSE)

-----------------------------------------------------------------------------
\* VoiceRecorder

\* the guards of start: the warning shown, "" when capture may begin
start_check_nodevice ==
    IF ~col THEN "No collection is open." ELSE ""

start_check ==
    IF ~col THEN "No collection is open."
    ELSE IF ~audio_input THEN "No audio input device available."
    ELSE ""

\* start()
start ==
    IF start_check # ""
    THEN /\ last' = Warned("start", start_check)
         /\ UNCHANGED <<col, audio_input, recording, last_path, config, shortcuts,
                        now, files, hostState, hostLoc, pending, player, completed>>
    ELSE \E created \in BOOLEAN :
           LET path == PathOf(_get_save_dir(config, col), now)
           IN  /\ config' = _get_config(config)
               /\ HostRecord(path)
               /\ files' = FilesAfterRecord(path, created)
               /\ recording' = TRUE
               /\ last_path' = path
               /\ last' = Outcome("start", "", FALSE, TRUE, "n/a", 0, NoFile, FALSE)
               /\ UNCHANGED <<col, audio_input, shortcuts, now, player, completed>>

\* stop(), the capture delivering one of `takes`
stopWith(takes) ==
    \E take \in (IF hostState = "Recording" THEN takes ELSE {NoTake}),
       fail \in FailPoints :
       LET stopped == FilesAfterHostStop(take)
       IN  /\ hostState' = "Stopped"
           /\ pending' = {}
           /\ completed' = IF hostState = "Recording" THEN hostLoc ELSE completed
           /\ recording' = FALSE
           /\ IF last_path # None
              THEN /\ fail = AmpFail(stopped, last_path, fail) \/ fail = "none"
                   /\ config' = _get_config(config)
                   /\ files' = _amplify_wav(stopped, last_path, _get_gain(config), fail)
                   /\ last' = Outcome("stop", "", FALSE, FALSE,
                                      AmpFail(stopped, last_path, fail),
                                      _get_gain(config), stopped[last_path], FALSE)
              ELSE /\ fail = "none"
                   /\ files' = stopped
                   /\ last' = Quiet("stop")
                   /\ UNCHANGED config
           /\ UNCHANGED <<col, audio_input, last_path, shortcuts, now, hostLoc, player>>

stop == stopWith(CapturedTakes)

\* toggle(): the handler it dispatches to
toggle_inverted ==
    IF recording THEN start ELSE stop

toggle ==
    IF recording THEN stop ELSE start

play_last ==
    IF last_path = None
    THEN /\ last' = Warned("play_last", "No recording available yet.")
         /\ UNCHANGED <<col, audio_input, recording, last_path, config, shortcuts,
                        now, files, hostState, hostLoc, pending, player, completed>>
    ELSE IF files[last_path].kind = "none"
    THEN /\ last' = Warned("play_last", "Last recording file is missing.")
         /\ UNCHANGED <<col, audio_input, recording, last_path, config, shortcuts,
                        now, files, hostState, hostLoc, pending, player, completed>>
    ELSE /\ player' = [source |-> last_path]
         /\ last' = Outcome("play_last", "", FALSE, FALSE, "n/a", 0, NoFile, TRUE)
         /\ UNCHANGED <<col, audio_input, recording, last_path, config, shortcuts,
                        now, files, hostState, hostLoc, pending, completed>>

-----------------------------------------------------------------------------
\* Settings dialogs

\* what QFileDialog.getExistingDirectory can return ("" when cancelled)
ChosenDirs == {"", "custom"}
\* what QInputDialog.getText can return as text
ShortcutTexts == {"", "f5"}

\* _set_save_dir(): _get_save_dir() runs first, and may raise
_set_save_dir ==
    \E chosen \in ChosenDirs :
       /\ config' = IF chosen # "" /\ _get_save_dir(config, col) # "RAISE"
                    THEN [_get_config(config) EXCEPT !.save_dir = chosen]
                    ELSE _get_config(config)
       /\ last' = IF _get_save_dir(config, col) = "RAISE"
                  THEN Outcome("set_save_dir", "", TRUE, FALSE, "n/a", 0,
                               NoFile, FALSE)
                  ELSE Quiet("set_save_dir")
       /\ UNCHANGED <<col, audio_input, recording, last_path, shortcuts, now,
                      files, hostState, hostLoc, pending, player, completed>>

\* _set_keybindings(), _apply_shortcuts() included
_set_keybindings ==
    \E ok1 \in BOOLEAN, record_text \in ShortcutTexts,
       ok2 \in BOOLEAN, play_text \in ShortcutTexts :
       LET cfg == _get_config(config)
           warning == IF ~ok1 THEN ""
                      ELSE IF ~_is_valid_shortcut(record_text)
                      THEN "Invalid shortcut for recording."
                      ELSE IF ~ok2 THEN ""
                      ELSE IF ~_is_valid_shortcut(play_text)
                      THEN "Invalid shortcut for playback."
                      ELSE ""
           accepted == ok1 /\ ok2 /\ warning = ""
           written == [cfg EXCEPT !.record_shortcut = KeySequenceToString(record_text),
                                  !.play_shortcut = KeySequenceToString(play_text)]
       IN  /\ ~ok1 => (record_text = "" /\ ~ok2)
           /\ (~ok2 \/ ~_is_valid_shortcut(record_text)) => play_text = ""
           /\ config' = IF accepted THEN written ELSE cfg
           /\ shortcuts' = IF accepted
                           THEN [record |-> _get_record_shortcut(written),
                                 play |-> _get_play_shortcut(written)]
                           ELSE shortcuts
           /\ last' = Warned("set_keybindings", warning)
           /\ UNCHANGED <<col, audio_input, recording, last_path, now, files,
                          hostState, hostLoc, pending, player, completed>>

-----------------------------------------------------------------------------
\* The environment

\* the wall clock advances
Tick ==
    /\ now < MaxTime
    /\ now' = now + 1
    /\ last' = Quiet("env")
    /\ UNCHANGED <<col, audio_input, recording, last_path, config, shortcuts,
                   files, hostState, hostLoc, pending, player, completed>>

\* the host opens or closes the collection (profile load / unload)
SetCollection ==
    /\ col' = ~col
    /\ last' = Quiet("env")
    /\ UNCHANGED <<audio_input, recording, last_path, config, shortcuts, now,
                   files, hostState, hostLoc, pending, player, completed>>

-----------------------------------------------------------------------------
\* Specifications

\* what the addon manager can hold at startup: nothing, or a configuration the
\* user has edited (here gain 6.0 and a chosen folder)
StoredConfigs ==
    {NoConfig, [DefaultConfig EXCEPT !.gain = GainNum(240), !.save_dir = "custom"]}

\* VoiceRecorder.__init__ and the module's top level (which reads the
\* shortcuts, so the configuration is synthesized), over what the host can hold
InitWith(configs) ==
    /\ col \in BOOLEAN
    /\ audio_input \in BOOLEAN
    /\ recording = FALSE
    /\ last_path = None
    /\ \E c \in configs :
          /\ config = _get_config(c)
          /\ shortcuts = [record |-> _get_record_shortcut(c),
                          play |-> _get_play_shortcut(c)]
    /\ now = 0
    /\ files = [p \in Paths |-> NoFile]
    /\ hostState = "Stopped"
    /\ hostLoc = None
    /\ pending = {}
    /\ player = [source |-> None]
    /\ completed = None
    /\ last = Quiet("init")

Init == InitWith(StoredConfigs)

\* every method of the recorder and every menu action
Next ==
    \/ start
    \/ stop
    \/ toggle
    \/ play_last
    \/ _set_save_dir
    \/ _set_keybindings
    \/ Tick
    \/ SetCollection

Spec == Init /\ [][Next]_vars

\* the command surface only: the four menu actions
NextUI ==
    \/ toggle
    \/ play_last
    \/ _set_save_dir
    \/ _set_keybindings
    \/ Tick
    \/ SetCollection

SpecUI == Init /\ [][NextUI]_vars

\* The amplifier over the bounded sample sets: a capture is in progress, and
\* stop() finalizes it with any take and amplifies it with the resolved gain.

\* sample values per width: the extremes, values that saturate, values whose
\* product with a gain is not an integer
AmpSamples(width) ==
    IF width = 1 THEN {-128, -100, -1, 50, 127}
    ELSE {-32768, -20000, -1, 3, 10000, 32767}

SeqsUpTo(S, n) == UNION {[1..m -> S] : m \in 1..n}

AmpTakes == {<<w, s>> : w \in {1}, s \in SeqsUpTo(AmpSamples(1), MaxFrames)}
            \cup {<<w, s>> : w \in {2}, s \in SeqsUpTo(AmpSamples(2), MaxFrames)}

\* the "gain" entries a stored configuration can hold: 0.05, 0.5, 2.0, 6.0,
\* none, unparseable
ConfigGains == {GainAbsent, GainBad, GainNum(2), GainNum(20), GainNum(80), GainNum(240)}

AmpConfigs ==
    {NoConfig} \cup {[DefaultConfig EXCEPT !.gain = g] : g \in ConfigGains}

AmpPath == PathOf(MEDIA_DIR, 0)

\* the state after a successful start() at time 0, the stored configuration
\* (the host's, editable outside the addon) since edited or removed
InitAmp ==
    /\ col = TRUE
    /\ audio_input = TRUE
    /\ recording = TRUE
    /\ last_path = AmpPath
    /\ config \in AmpConfigs
    /\ shortcuts = [record |-> DEFAULT_RECORD_SHORTCUT, play |-> DEFAULT_PLAY_SHORTCUT]
    /\ now = 0
    /\ files = [p \in Paths |-> NoFile]
    /\ hostState = "Recording"
    /\ hostLoc = AmpPath
    /\ pending = {AmpPath}
    /\ player = [source |-> None]
    /\ completed = None
    /\ last = Outcome("start", "", FALSE, TRUE, "n/a", 0, NoFile, FALSE)

stopAmp == stopWith(AmpTakes)

NextAmp ==
    \/ stopAmp
    \/ play_last

SpecAmp == InitAmp /\ [][NextAmp]_vars

-----------------------------------------------------------------------------
\* Properties

Clamp(x, lo, hi) == IF x < lo THEN lo ELSE IF x > hi THEN hi ELSE x

\* C1: in every reachable state last_path is unset, or is the path of the most
\* recently completed recording and names no recording still in progress.
C1_LastPathIsCompleted ==
    last_path # None => (last_path = completed /\ last_path \notin pending)

\* C2: start while Recording is a no-op: record() is not called again, no
\* second destination is created, is_recording and the pending path are kept.
C2_StartWhileRecordingIsNoOp ==
    [][(last'.op = "start" /\ recording) =>
          (/\ ~last'.record
           /\ recording' = recording
           /\ last_path' = last_path
           /\ pending' = pending
           /\ files' = files)]_vars

\* C3: stop while Idle is a no-op: is_recording and last_path are kept, the
\* amplifier is not invoked, no file is modified.
C3_StopWhileIdleIsNoOp ==
    [][(last'.op = "stop" /\ ~recording) =>
          (/\ recording' = recording
           /\ last_path' = last_path
           /\ last'.amp = "n/a"
           /\ files' = files)]_vars

\* C4: through the command surface, start runs only when Idle and stop only
\* when Recording (so toggle runs start exactly when Idle), record() is called
\* only while is_recording is false, and at most one capture is pending.
C4_ToggleGatesStart ==
    [][/\ last'.op = "start" => ~recording
       /\ last'.op = "stop" => recording
       /\ last'.record => ~recording
       /\ Cardinality(pending') <= 1]_vars

\* C4 witness: a toggle has stopped and amplified a capture that a toggle began
C4_Witness ==
    /\ last.op = "stop"
    /\ last.amp = "none"
    /\ ~recording
    /\ completed = last_path

\* C5: play_last before any recording has completed shows the "no recording
\* available" warning and does not start the player.
C5_PlayLastBeforeCompletion ==
    (last.op = "play_last" /\ completed = None) =>
        (last.warning = "No recording available yet." /\ ~last.played)

\* C6: start with no collection open or no input device warns, does not call
\* record(), and leaves is_recording, last_path, the host recorder and the
\* files as they were (so Idle stays Idle).
C6_StartPreconditions ==
    [][(last'.op = "start" /\ (~col \/ ~audio_input)) =>
          (/\ last'.warning # ""
           /\ ~last'.record
           /\ recording' = recording
           /\ last_path' = last_path
           /\ hostState' = hostState
           /\ pending' = pending
           /\ files' = files)]_vars

\* C6 witness: start has been refused for want of an input device, collection open
C6_Witness ==
    /\ last.op = "start"
    /\ col
    /\ ~audio_input
    /\ last.warning = "No audio input device available."
    /\ ~recording

\* C7: when amplification fails at any step, stop continues normally and the
\* file holds what it held before the amplifier was called.
C7_FailedAmplifyKeepsFile ==
    (last.op = "stop" /\ last.amp \in {"read", "mul", "openw", "write"}) =>
        (~last.raised /\ files[last_path] = last.input)

\* C8: no public action lets an exception escape its entry point.
C8_NoEscapingFailure == ~last.raised

\* the amplifier has run to completion on last.input with gain last.gain
AmplifiedOK == last.op = "stop" /\ last.amp = "none"

\* the product sample * gain, clamped to the width's signed range, as a
\* numerator over GainDen
ClampedProduct(f, gain, i) ==
    Clamp(Samples(f)[i] * gain,
          MinVal(f.params.sampwidth) * GainDen,
          MaxVal(f.params.sampwidth) * GainDen)

SameFormat(in, out) ==
    /\ out.kind = "pcm"
    /\ out.params = in.params
    /\ NFrames(out) = NFrames(in)

\* C9 as stated: after the amplifier runs the file has the same format
\* parameters and number of samples, and every sample EQUALS
\* clamp(original * g, min, max).
C9_SamplesEqualClampedProduct ==
    AmplifiedOK =>
        /\ SameFormat(last.input, files[last_path])
        /\ \A i \in 1..NFrames(last.input) :
              Samples(files[last_path])[i] * GainDen
                  = ClampedProduct(last.input, last.gain, i)

\* C9 amended: the same, every sample being clamp(original * g, min, max)
\* rounded towards minus infinity: out <= clamp(...) < out + 1.
C9_SamplesFloorClampedProduct ==
    AmplifiedOK =>
        /\ SameFormat(last.input, files[last_path])
        /\ \A i \in 1..NFrames(last.input) :
              /\ Samples(files[last_path])[i] * GainDen
                    <= ClampedProduct(last.input, last.gain, i)
              /\ ClampedProduct(last.input, last.gain, i)
                    < (Samples(files[last_path])[i] + 1) * GainDen

\* C9 witness: an amplified 16-bit file in which one sample saturated and
\* another's product with the gain was not an integer
C9_Witness ==
    /\ AmplifiedOK
    /\ last.input.params.sampwidth = 2
    /\ \E i \in 1..NFrames(last.input) :
          Samples(last.input)[i] * last.gain > MaxVal(2) * GainDen
    /\ \E i \in 1..NFrames(last.input) :
          /\ (Samples(last.input)[i] * last.gain) % GainDen # 0
          /\ Samples(last.input)[i] < 0

\* the gain C10 states for a stored configuration
ClaimedGain(c) ==
    IF c = NoConfig THEN DEFAULT_GAIN
    ELSE IF c.gain.kind \in {"absent", "bad"} THEN DEFAULT_GAIN
    ELSE Clamp(c.gain.val, GAIN_MIN, GAIN_MAX)

\* C10: the gain stop passes to the amplifier is the configured number clamped
\* to [0.1, 5.0], and 1.25 when the gain is absent or unparseable or when no
\* configuration exists yet.
C10_ResolvedGain ==
    [][(last'.op = "stop" /\ last'.amp # "n/a") =>
          last'.gain = ClaimedGain(config)]_vars

====
